---- MODULE Spec2Model ----
(***************************************************************************)
(* AuiTrack degree planner: the Zustand store (semesterPlans, error,       *)
(* userInfo) with its actions setUserInfo, resetPlan, addCourse and        *)
(* removeCourse, and the plan import of the degree-plan page, which        *)
(* replays addCourse on the courses read from a file.                      *)
(*                                                                         *)
(* The plan generator generateDegreePlan is a function of its arguments;   *)
(* its arguments and the plans it has returned are requirements, options   *)
(* and generated.                                                          *)
(*                                                                         *)
(* The pages around the store are modelled where they act on it: the       *)
(* course picker of a semester, savePlan and the import of the saved       *)
(* file, the user-info form and the effect of the degree-plan page that    *)
(* calls resetPlan while the plan is empty.                                *)
(*                                                                         *)
(* A course code is the sequence of the tokens of its string: letter and   *)
(* digit runs, and the separator characters " " and "-".  "CSC 1401" is    *)
(* <<"CSC", " ", "1401">> and "CSC1401" is <<"CSC", "1401">>; string       *)
(* equality (===) is equality of the sequences.  A semester name           *)
(* `${term} ${year}` is the pair <<term, year>>.                           *)
(***************************************************************************)
EXTENDS Integers, Sequences, FiniteSets, TLC

VARIABLES semesterPlans, error, userInfo, last,
          requirements, options, generated, takenCourses

\* the arguments of generateDegreePlan, the plans its invocations returned and
\* the set of taken codes its last invocation built
generatorVars == <<requirements, options, generated, takenCourses>>

vars == <<semesterPlans, error, userInfo, last, requirements, options, generated, takenCourses>>

----------------------------------------------------------------------------
(* Bounds of the model *)

\* the ledger holds at most this many courses after a call
MaxPlaced == 4

\* a semester of a plan file holds at most this many courses
MaxImportCourses == 1

\* the start and end years of a user info span at most this many years
MaxYears == 2

\* requirements.courses holds at most this many courses
MaxCatalog == 3

\* generateDegreePlan is invoked at most this many times on the same arguments
MaxInvocations == 2

----------------------------------------------------------------------------
(* Values *)

NoCode == <<>>
NoSemester == <<>>
NoError == [kind |-> "null", code |-> NoCode, semester |-> NoSemester, dependent |-> NoCode]
NoUserInfo == [startSemester |-> "null", startYear |-> 0, endSemester |-> "null", endYear |-> 0]
NoRequirements == [totalCredits |-> 0, courses |-> <<>>]
NoOptions == [includeSummer |-> FALSE, summerTerms |-> 0, specializations |-> <<>>]

Range(f) == {f[i] : i \in DOMAIN f}

\* Array.prototype.indexOf: 0-based, -1 when absent
RECURSIVE IndexFrom(_, _, _)
IndexFrom(arr, x, i) ==
    IF i > Len(arr) THEN -1
    ELSE IF arr[i] = x THEN i - 1
    ELSE IndexFrom(arr, x, i + 1)

IndexOf(arr, x) == IndexFrom(arr, x, 1)

\* parseInt on the credit strings of the catalog and of plan files
parseInt(s) ==
    CASE s = "0" -> 0
      [] s = "1" -> 1
      [] s = "3" -> 3
      [] s = "4" -> 4
      [] s = "19" -> 19

REGULAR_SEMESTER_CREDIT_LIMIT == 22
SUMMER_SEMESTER_CREDIT_LIMIT == 10

----------------------------------------------------------------------------
(* The course catalog (courseData) offered by the course picker *)

Prereq(v) == [type |-> "course", value |-> v]

CSC1401 == [course_code |-> <<"CSC", " ", "1401">>, credits |-> "3", prerequisites |-> <<>>]
CSC2302 == [course_code |-> <<"CSC", " ", "2302">>, credits |-> "3",
            prerequisites |-> << <<Prereq(<<"CSC", "1401">>)>> >>]
MTH1303 == [course_code |-> <<"MTH", " ", "1303">>, credits |-> "4", prerequisites |-> <<>>]
MTH2301 == [course_code |-> <<"MTH", " ", "2301">>, credits |-> "3",
            prerequisites |-> << <<Prereq(<<"MTH", " ", "1303">>), Prereq(<<"csc", "-", "1401">>)>> >>]
INT4901 == [course_code |-> <<"INT", " ", "4901">>, credits |-> "19", prerequisites |-> <<>>]

courseData == {CSC1401, CSC2302, MTH1303, MTH2301, INT4901}

----------------------------------------------------------------------------
(* resetPlan *)

semesterOrder == <<"Fall", "Spring", "Summer">>

EmptyPlan(term, year, type) ==
    [semester |-> <<term, year>>, type |-> type, courses |-> <<>>, credits |-> 0]

\* the plan of resetPlan without user info
DefaultPlans ==
    << EmptyPlan("Fall", 2024, "regular"), EmptyPlan("Spring", 2025, "regular"),
       EmptyPlan("Summer", 2025, "summer"),
       EmptyPlan("Fall", 2025, "regular"), EmptyPlan("Spring", 2026, "regular"),
       EmptyPlan("Summer", 2026, "summer"),
       EmptyPlan("Fall", 2026, "regular"), EmptyPlan("Spring", 2027, "regular"),
       EmptyPlan("Summer", 2027, "summer"),
       EmptyPlan("Fall", 2027, "regular"), EmptyPlan("Spring", 2028, "regular"),
       EmptyPlan("Summer", 2028, "summer") >>

\* the plan of resetPlan when the start term is not recognized
InvalidStartPlans ==
    << EmptyPlan("Fall", 2024, "regular"), EmptyPlan("Spring", 2025, "regular"),
       EmptyPlan("Summer", 2025, "summer") >>

\* variant: every semester is named with currentYear
RECURSIVE GenerateSemesters_CurrentYear(_, _, _, _)
GenerateSemesters_CurrentYear(currentYear, currentSemester, endYear, endSemester) ==
    IF \/ currentYear < endYear
       \/ /\ currentYear = endYear
          /\ IndexOf(semesterOrder, currentSemester) <= IndexOf(semesterOrder, endSemester)
    THEN LET nextSemesterIndex == (IndexOf(semesterOrder, currentSemester) + 1) % Len(semesterOrder)
         IN  << EmptyPlan(currentSemester, currentYear,
                          IF currentSemester = "Summer" THEN "summer" ELSE "regular") >>
             \o GenerateSemesters_CurrentYear(
                    IF nextSemesterIndex = 0 THEN currentYear + 1 ELSE currentYear,
                    semesterOrder[nextSemesterIndex + 1], endYear, endSemester)
    ELSE <<>>

\* the while loop of resetPlan
RECURSIVE GenerateSemesters(_, _, _, _)
GenerateSemesters(currentYear, currentSemester, endYear, endSemester) ==
    IF \/ currentYear < endYear
       \/ /\ currentYear = endYear
          /\ IndexOf(semesterOrder, currentSemester) <= IndexOf(semesterOrder, endSemester)
    THEN LET displayYear == IF currentSemester = "Fall" THEN currentYear ELSE currentYear + 1
             nextSemesterIndex == (IndexOf(semesterOrder, currentSemester) + 1) % Len(semesterOrder)
         IN  << EmptyPlan(currentSemester, displayYear,
                          IF currentSemester = "Summer" THEN "summer" ELSE "regular") >>
             \o GenerateSemesters(IF nextSemesterIndex = 0 THEN currentYear + 1 ELSE currentYear,
                                  semesterOrder[nextSemesterIndex + 1], endYear, endSemester)
    ELSE <<>>

\* the semesterPlans that resetPlan stores for a user info
ResetPlans(info) ==
    IF info = NoUserInfo THEN DefaultPlans
    ELSE IF IndexOf(semesterOrder, info.startSemester) = -1 THEN InvalidStartPlans
    ELSE GenerateSemesters(info.startYear, info.startSemester, info.endYear, info.endSemester)

----------------------------------------------------------------------------
(* addCourse *)

\* String.prototype.toUpperCase on a token
toUpperCase(tok) ==
    CASE tok = "csc" -> "CSC"
      [] tok = "mth" -> "MTH"
      [] OTHER -> tok

\* the characters matched by /[\s-]/
IsSeparator(tok) == tok \in {" ", "-"}

RECURSIVE MapUpper(_)
MapUpper(code) ==
    IF code = <<>> THEN <<>> ELSE <<toUpperCase(Head(code))>> \o MapUpper(Tail(code))

\* code.replace(/[\s-]+/g, '').toUpperCase(), '' for an empty code
normalizeCourseCode(code) ==
    IF code = <<>> THEN <<>>
    ELSE MapUpper(SelectSeq(code, LAMBDA tok : ~IsSeparator(tok)))

\* semesterPlans.findIndex(plan => plan.semester === semester), 1-based, 0 when absent
FindSemester(plans, semester) ==
    IF \E i \in 1..Len(plans) : plans[i].semester = semester
    THEN CHOOSE i \in 1..Len(plans) :
            /\ plans[i].semester = semester
            /\ \A j \in 1..(i - 1) : plans[j].semester # semester
    ELSE 0

\* courses.some(c => c.course_code === code)
HasCourse(plan, code) == \E i \in 1..Len(plan.courses) : plan.courses[i].course_code = code

\* variant: the loop pushes the courses of the current semester before it breaks
RECURSIVE PreviousSemestersFrom_Inclusive(_, _, _)
PreviousSemestersFrom_Inclusive(plans, semester, i) ==
    IF i > Len(plans) THEN <<>>
    ELSE IF plans[i].semester = semester THEN plans[i].courses
    ELSE plans[i].courses \o PreviousSemestersFrom_Inclusive(plans, semester, i + 1)

\* the loop that collects the courses of the plans before the first one named
\* `semester` (it breaks there)
RECURSIVE PreviousSemestersFrom(_, _, _)
PreviousSemestersFrom(plans, semester, i) ==
    IF i > Len(plans) THEN <<>>
    ELSE IF plans[i].semester = semester THEN <<>>
    ELSE plans[i].courses \o PreviousSemestersFrom(plans, semester, i + 1)

PreviousSemesters(plans, semester) == PreviousSemestersFrom(plans, semester, 1)

\* previousSemesters.some(c => normalizeCourseCode(c.course_code) === normalized)
InPrevious(previousSemesters, normalized) ==
    \E i \in 1..Len(previousSemesters) :
        normalizeCourseCode(previousSemesters[i].course_code) = normalized

\* variant: an empty group is a conjunct that nothing satisfies
PrerequisitesSatisfied_EmptyGroupFails(course, previousSemesters) ==
    \A g \in 1..Len(course.prerequisites) :
        \E p \in 1..Len(course.prerequisites[g]) :
            InPrevious(previousSemesters, normalizeCourseCode(course.prerequisites[g][p].value))

\* course.prerequisites.every(group => group.length === 0 || group.some(...))
PrerequisitesSatisfied(course, previousSemesters) ==
    \A g \in 1..Len(course.prerequisites) :
        LET group == course.prerequisites[g]
        IN  \/ Len(group) = 0
            \/ \E p \in 1..Len(group) :
                  InPrevious(previousSemesters, normalizeCourseCode(group[p].value))

\* variant: the course is put in front of the courses of the semester
AppendCourse_InFront(plans, semester, course) ==
    [i \in 1..Len(plans) |->
        IF plans[i].semester = semester
        THEN [plans[i] EXCEPT !.courses = <<course>> \o @,
                              !.credits = @ + parseInt(course.credits)]
        ELSE plans[i]]

\* semesterPlans.map(plan => plan.semester === semester ? {...plan, courses+course} : plan)
AppendCourse(plans, semester, course) ==
    [i \in 1..Len(plans) |->
        IF plans[i].semester = semester
        THEN [plans[i] EXCEPT !.courses = Append(@, course),
                              !.credits = @ + parseInt(course.credits)]
        ELSE plans[i]]

\* variant: one limit for both types of semester
CreditLimit_SameForAll(plan) == REGULAR_SEMESTER_CREDIT_LIMIT

CreditLimit(plan) ==
    IF plan.type = "summer" THEN SUMMER_SEMESTER_CREDIT_LIMIT ELSE REGULAR_SEMESTER_CREDIT_LIMIT

AlreadyInSemester(course, semester) ==
    [kind |-> "is already in", code |-> course.course_code, semester |-> semester,
     dependent |-> NoCode]
AlreadyInAnother(course) ==
    [kind |-> "is already in another semester", code |-> course.course_code,
     semester |-> NoSemester, dependent |-> NoCode]
ExceedsCreditLimit(course, semester) ==
    [kind |-> "would exceed the credit limit", code |-> course.course_code,
     semester |-> semester, dependent |-> NoCode]
PrerequisitesNotSatisfied(course) ==
    [kind |-> "prerequisites are not satisfied", code |-> course.course_code,
     semester |-> NoSemester, dependent |-> NoCode]
CannotRemove(courseCode, dependentCourse) ==
    [kind |-> "cannot remove", code |-> courseCode, semester |-> NoSemester,
     dependent |-> dependentCourse]

Result(plans, err, outcome) == [semesterPlans |-> plans, error |-> err, outcome |-> outcome]

\* the prerequisite check of addCourse, the special case for CSC 2302 included
PassesPrerequisites(plans, semester, course) ==
    \/ Len(course.prerequisites) = 0
    \/ LET previousSemesters == PreviousSemesters(plans, semester)
       IN  \/ /\ course.course_code = <<"CSC", " ", "2302">>
              /\ InPrevious(previousSemesters, normalizeCourseCode(<<"CSC", "1401">>))
           \/ PrerequisitesSatisfied(course, previousSemesters)

\* variant: the other semesters are not searched
ExistsInOtherSemester_Never(plans, semester, course) == FALSE

\* semesterPlans.some(plan => plan.semester !== semester && plan.courses.some(...))
ExistsInOtherSemester(plans, semester, course) ==
    \E i \in 1..Len(plans) :
        plans[i].semester # semester /\ HasCourse(plans[i], course.course_code)

\* variant: newCredits >= creditLimit
ExceedsLimit_AtCap(semesterPlan, course) ==
    semesterPlan.credits + parseInt(course.credits) >= CreditLimit(semesterPlan)

\* newCredits > creditLimit
ExceedsLimit(semesterPlan, course) ==
    semesterPlan.credits + parseInt(course.credits) > CreditLimit(semesterPlan)

\* variant: the credit limit is checked before the duplicates
FirstError_CreditFirst(plans, semester, course) ==
    LET semesterPlan == plans[FindSemester(plans, semester)]
    IN  IF ExceedsLimit(semesterPlan, course)
        THEN ExceedsCreditLimit(course, semester)
        ELSE IF HasCourse(semesterPlan, course.course_code)
        THEN AlreadyInSemester(course, semester)
        ELSE IF ExistsInOtherSemester(plans, semester, course)
        THEN AlreadyInAnother(course)
        ELSE IF ~PassesPrerequisites(plans, semester, course)
        THEN PrerequisitesNotSatisfied(course)
        ELSE NoError

\* the checks of addCourse in the order of the code: the error of the first one
\* that fails, NoError when all pass
FirstError(plans, semester, course) ==
    LET semesterPlan == plans[FindSemester(plans, semester)]
    IN  IF HasCourse(semesterPlan, course.course_code)
        THEN AlreadyInSemester(course, semester)
        ELSE IF ExistsInOtherSemester(plans, semester, course)
        THEN AlreadyInAnother(course)
        ELSE IF ExceedsLimit(semesterPlan, course)
        THEN ExceedsCreditLimit(course, semester)
        ELSE IF ~PassesPrerequisites(plans, semester, course)
        THEN PrerequisitesNotSatisfied(course)
        ELSE NoError

\* set({ error: ... }); return
Reject(plans, reason) == Result(plans, reason, "rejected")

\* variant: the error of an earlier call is kept
Accept_KeepError(plans, err) == Result(plans, err, "accepted")

\* set({ semesterPlans: updatedSemesterPlans, error: null })
Accept(plans, err) == Result(plans, NoError, "accepted")

\* addCourse(semester, course) on a store holding plans and err
addCourse(plans, err, semester, course) ==
    IF FindSemester(plans, semester) = 0 THEN Result(plans, err, "no semester")
    ELSE LET reason == FirstError(plans, semester, course)
         IN  IF reason # NoError THEN Reject(plans, reason)
             ELSE Accept(AppendCourse(plans, semester, course), err)

----------------------------------------------------------------------------
(* removeCourse *)

\* c.prerequisites.some(group => group.some(prereq => prereq.value === courseCode))
IsRequired(c, courseCode) ==
    \E g \in 1..Len(c.prerequisites) :
        \E p \in 1..Len(c.prerequisites[g]) : c.prerequisites[g][p].value = courseCode

\* the first course, in list order, that requires courseCode; NoCode when none
RECURSIVE FirstRequiring(_, _, _)
FirstRequiring(courses, courseCode, k) ==
    IF k > Len(courses) THEN NoCode
    ELSE IF Len(courses[k].prerequisites) # 0 /\ IsRequired(courses[k], courseCode)
    THEN courses[k].course_code
    ELSE FirstRequiring(courses, courseCode, k + 1)

\* the loop over the semesters after semesterIndex: dependentCourse, NoCode when
\* isPrerequisite stays false
RECURSIVE DependentCourse(_, _, _)
DependentCourse(plans, courseCode, i) ==
    IF i > Len(plans) THEN NoCode
    ELSE LET d == FirstRequiring(plans[i].courses, courseCode, 1)
         IN  IF d # NoCode THEN d ELSE DependentCourse(plans, courseCode, i + 1)

\* courses.findIndex(course => course.course_code === courseCode), 1-based, 0 when absent
FindCourse(courses, courseCode) ==
    IF \E k \in 1..Len(courses) : courses[k].course_code = courseCode
    THEN CHOOSE k \in 1..Len(courses) :
            /\ courses[k].course_code = courseCode
            /\ \A j \in 1..(k - 1) : courses[j].course_code # courseCode
    ELSE 0

\* variant: the credits of the semester are not decremented
FilterCourse_KeepCredits(plans, semesterIndex, courseCode, course) ==
    [plans EXCEPT ![semesterIndex].courses = SelectSeq(@, LAMBDA c : c.course_code # courseCode)]

\* updatedSemesterPlans[semesterIndex] = {..., courses: filter(...), credits: credits - ...}
FilterCourse(plans, semesterIndex, courseCode, course) ==
    [plans EXCEPT ![semesterIndex].courses = SelectSeq(@, LAMBDA c : c.course_code # courseCode),
                  ![semesterIndex].credits = @ - parseInt(course.credits)]

\* removeCourse(semester, courseCode) on a store holding plans and err
removeCourse(plans, err, semester, courseCode) ==
    LET semesterIndex == FindSemester(plans, semester)
        courseIndex == FindCourse(plans[semesterIndex].courses, courseCode)
        course == plans[semesterIndex].courses[courseIndex]
        dependentCourse == DependentCourse(plans, courseCode, semesterIndex + 1)
    IN  IF semesterIndex = 0 THEN Result(plans, err, "no semester")
        ELSE IF courseIndex = 0 THEN Result(plans, err, "no course")
        ELSE IF dependentCourse # NoCode
        THEN Reject(plans, CannotRemove(courseCode, dependentCourse))
        ELSE Accept(FilterCourse(plans, semesterIndex, courseCode, course), err)

----------------------------------------------------------------------------
(* Plan import (handleFileImport): setUserInfo, resetPlan, addCourse replayed *)

\* a course as extractCoursesFromSemesterContent builds it: no prerequisites
ImportedCourse(code, credits) ==
    [course_code |-> code, credits |-> credits, prerequisites |-> <<>>]

ImportCourses ==
    { ImportedCourse(<<"CSC", " ", "1401">>, "3"), ImportedCourse(<<"CSC", " ", "2302">>, "3") }

\* the semester headings of the plan files, in file order
ImportHeadings == { << <<"Fall", 2024>>, <<"Summer", 2025>> >>, << <<"Summer", 2025>> >> }

SeqsUpTo(S, n) == UNION { [1..k -> S] : k \in 0..n }

\* the parsed semesters of a plan file: distinct names (processedSemesters), in file order
ImportFiles ==
    { f \in SeqsUpTo([name : {<<"Fall", 2024>>, <<"Summer", 2025>>},
                      courses : SeqsUpTo(ImportCourses, MaxImportCourses)], 2) :
        [i \in 1..Len(f) |-> f[i].name] \in ImportHeadings }

\* the userInfo parseDegreePlanFile derives from the first and the last semester name
ParsedUserInfo(semesters) ==
    LET firstSemester == IF Len(semesters) = 0 THEN <<"Fall", 2024>> ELSE semesters[1].name
        lastSemester == IF Len(semesters) = 0 THEN <<"Spring", 2028>>
                        ELSE semesters[Len(semesters)].name
    IN  [startSemester |-> firstSemester[1], startYear |-> firstSemester[2],
         endSemester |-> lastSemester[1], endYear |-> lastSemester[2]]

\* sem.courses.forEach(course => addCourse(sem.name, course)) from course k on
RECURSIVE ReplayCourses(_, _, _, _)
ReplayCourses(store, name, courses, k) ==
    IF k > Len(courses) THEN store
    ELSE ReplayCourses(addCourse(store.semesterPlans, store.error, name, courses[k]),
                       name, courses, k + 1)

\* parsedData.semesters.forEach(sem => ...) from semester i on
RECURSIVE ReplaySemesters(_, _, _)
ReplaySemesters(store, semesters, i) ==
    IF i > Len(semesters) THEN store
    ELSE ReplaySemesters(ReplayCourses(store, semesters[i].name, semesters[i].courses, 1),
                         semesters, i + 1)

----------------------------------------------------------------------------
(* The store as a state machine *)

\* the last call on the store and the way it ended; its arguments are kept when
\* the call went through the validator (accepted or rejected)
Call(op, semester, code, outcome) ==
    IF outcome \in {"accepted", "rejected"}
    THEN [op |-> op, semester |-> semester, code |-> code, outcome |-> outcome]
    ELSE [op |-> op, semester |-> NoSemester, code |-> NoCode, outcome |-> outcome]

CourseByCode(code) == CHOOSE c \in courseData : c.course_code = code

AddCalled(outcomes) == last'.op = "addCourse" /\ last'.outcome \in outcomes
RemoveCalled(outcomes) == last'.op = "removeCourse" /\ last'.outcome \in outcomes

\* the user infos entered on the user-info page
UserInfoInputs ==
    { [startSemester |-> "Summer", startYear |-> 2024, endSemester |-> "Spring", endYear |-> 2025] }

\* the semester names the callers pass
SemesterInputs == { <<"Fall", 2024>>, <<"Summer", 2025>>, <<"Winter", 2025>> }

CourseCodes == { c.course_code : c \in courseData }

RECURSIVE SumLen(_, _)
SumLen(plans, i) == IF i > Len(plans) THEN 0 ELSE Len(plans[i].courses) + SumLen(plans, i + 1)

PlacedCount(plans) == SumLen(plans, 1)

Init ==
    /\ semesterPlans = <<>>
    /\ error = NoError
    /\ userInfo = NoUserInfo
    /\ last = Call("create", NoSemester, NoCode, "done")
    /\ requirements = NoRequirements
    /\ options = NoOptions
    /\ generated = <<>>
    /\ takenCourses = {}

SetUserInfo(info) ==
    /\ userInfo' = info
    /\ last' = Call("setUserInfo", NoSemester, NoCode, "done")
    /\ UNCHANGED <<semesterPlans, error>>
    /\ UNCHANGED generatorVars

ResetPlan ==
    /\ semesterPlans' = ResetPlans(userInfo)
    /\ error' = NoError
    /\ last' = Call("resetPlan", NoSemester, NoCode, "done")
    /\ UNCHANGED userInfo
    /\ UNCHANGED generatorVars

AddCourse(semester, course) ==
    LET r == addCourse(semesterPlans, error, semester, course)
    IN  /\ PlacedCount(r.semesterPlans) <= MaxPlaced
        /\ semesterPlans' = r.semesterPlans
        /\ error' = r.error
        /\ last' = Call("addCourse", semester, course.course_code, r.outcome)
        /\ UNCHANGED userInfo
        /\ UNCHANGED generatorVars

RemoveCourse(semester, courseCode) ==
    LET r == removeCourse(semesterPlans, error, semester, courseCode)
    IN  /\ semesterPlans' = r.semesterPlans
        /\ error' = r.error
        /\ last' = Call("removeCourse", semester, courseCode, r.outcome)
        /\ UNCHANGED userInfo
        /\ UNCHANGED generatorVars

ImportPlan(semesters) ==
    LET info == ParsedUserInfo(semesters)
        r == ReplaySemesters(Result(ResetPlans(info), NoError, "done"), semesters, 1)
    IN  /\ userInfo' = info
        /\ semesterPlans' = r.semesterPlans
        /\ error' = r.error
        /\ last' = Call("import", NoSemester, NoCode, "done")
        /\ UNCHANGED generatorVars

Next ==
    \/ \E info \in UserInfoInputs : SetUserInfo(info)
    \/ ResetPlan
    \/ \E semester \in SemesterInputs, course \in courseData : AddCourse(semester, course)
    \/ \E semester \in SemesterInputs, courseCode \in CourseCodes : RemoveCourse(semester, courseCode)
    \/ \E semesters \in ImportFiles : ImportPlan(semesters)

Spec == Init /\ [][Next]_vars

----------------------------------------------------------------------------
(* The store with a catalog whose prerequisite expressions hold empty groups *)

\* [[]]: one empty OR-group
FAS1220 == [course_code |-> <<"FAS", " ", "1220">>, credits |-> "3", prerequisites |-> << <<>> >>]

\* [[], [MTH 1303]]: an empty OR-group next to a non-empty one
PHY1401 == [course_code |-> <<"PHY", " ", "1401">>, credits |-> "3",
            prerequisites |-> << <<>>, <<Prereq(<<"MTH", " ", "1303">>)>> >>]

\* CSC 2302 as a catalog encodes it when its prerequisite list holds only an empty group
CSC2302_EmptyGroup ==
    [course_code |-> <<"CSC", " ", "2302">>, credits |-> "3", prerequisites |-> << <<>> >>]

emptyGroupCourseData == {CSC1401, MTH1303, FAS1220, PHY1401, CSC2302_EmptyGroup}

EmptyGroupCourseByCode(code) == CHOOSE c \in emptyGroupCourseData : c.course_code = code

NextEmptyGroups ==
    \/ ResetPlan
    \/ \E semester \in SemesterInputs, course \in emptyGroupCourseData : AddCourse(semester, course)
    \/ \E semester \in SemesterInputs, c \in emptyGroupCourseData :
          RemoveCourse(semester, c.course_code)
    \/ \E semesters \in ImportFiles : ImportPlan(semesters)

SpecEmptyGroups == Init /\ [][NextEmptyGroups]_vars

----------------------------------------------------------------------------
(* The store driven through setUserInfo and resetPlan over a range of user infos *)

\* the terms a user info can name: the three of semesterOrder and one that a
\* plan file can carry in a heading ([A-Za-z]+ \d{4}) and that resetPlan does
\* not recognize
SequenceTerms == {"Fall", "Spring", "Summer", "Winter"}

\* UserInfo values handed to setUserInfo
SequenceUserInfos ==
    [startSemester : SequenceTerms, startYear : 2024..(2024 + MaxYears - 1),
     endSemester : SequenceTerms, endYear : 2024..(2024 + MaxYears)]

NextSequence ==
    \/ \E info \in SequenceUserInfos : SetUserInfo(info)
    \/ ResetPlan
    \/ \E semester \in SemesterInputs : AddCourse(semester, CSC1401)

SpecSequence == Init /\ [][NextSequence]_vars

----------------------------------------------------------------------------
(* generateDegreePlan: the data of the module *)

\* a code as the catalogs write it: department, a space, number
Code(dept, number) == <<dept, " ", number>>

GenEd(dept, number, credits, prerequisites, category, required) ==
    [code |-> Code(dept, number), credits |-> credits, prerequisites |-> prerequisites,
     category |-> category, required |-> required]

GENERAL_EDUCATION_COURSES ==
    << GenEd("FYE", "1101", 1, <<>>, "Foundation", TRUE),
       GenEd("FAS", "0210", 2, <<>>, "Foundation", TRUE),
       GenEd("FYE", "1102", 1, <<Code("FYE", "1101")>>, "Foundation", TRUE),
       GenEd("FAS", "1220", 2, <<>>, "Foundation", TRUE),
       GenEd("ENG", "1301", 3, <<>>, "English", TRUE),
       GenEd("ENG", "2303", 3, <<Code("ENG", "1301")>>, "English", TRUE),
       GenEd("ENG", "2320", 3, <<Code("ENG", "1301")>>, "English", FALSE),
       GenEd("COM", "1301", 3, <<>>, "Communication", TRUE),
       GenEd("ARA", "1201", 2, <<>>, "Arabic", FALSE),
       GenEd("ARA", "1202", 2, <<>>, "Arabic", FALSE),
       GenEd("ARA", "1203", 2, <<>>, "Arabic", FALSE),
       GenEd("ARA", "3299", 2, <<>>, "Arabic", FALSE),
       GenEd("ARB", "1201", 2, <<>>, "Arabic", FALSE),
       GenEd("ARB", "1202", 2, <<>>, "Arabic", FALSE),
       GenEd("ARB", "1203", 2, <<>>, "Arabic", FALSE),
       GenEd("ARB", "1241", 2, <<>>, "Arabic", FALSE),
       GenEd("HUM", "2305", 3, <<>>, "Humanities", FALSE),
       GenEd("HUM", "2306", 3, <<>>, "Humanities", FALSE),
       GenEd("HUM", "2307", 3, <<>>, "Humanities", FALSE),
       GenEd("LIT", "2301", 3, <<Code("ENG", "1301")>>, "Humanities", FALSE),
       GenEd("PHI", "2301", 3, <<Code("ENG", "1301")>>, "Humanities", FALSE),
       GenEd("PHI", "2302", 3, <<Code("ENG", "1301")>>, "Humanities", FALSE),
       GenEd("HUM", "2301", 3, <<Code("FAS", "1220")>>, "Humanities", FALSE),
       GenEd("FRN", "3210", 2, <<>>, "French", TRUE),
       GenEd("ART", "1301", 3, <<Code("FYE", "1101")>>, "Art", FALSE),
       GenEd("ART", "1302", 3, <<Code("FYE", "1101")>>, "Art", FALSE),
       GenEd("ART", "1303", 3, <<Code("FYE", "1101")>>, "Art", FALSE),
       GenEd("ART", "1304", 3, <<Code("FYE", "1101")>>, "Art", FALSE),
       GenEd("ART", "1305", 3, <<Code("FYE", "1101")>>, "Art", FALSE),
       GenEd("ART", "3399", 3, <<Code("FYE", "1101")>>, "Art", FALSE),
       GenEd("COM", "2327", 3, <<Code("FYE", "1101")>>, "Art", FALSE),
       GenEd("LIT", "3370", 3, <<Code("FYE", "1101")>>, "Art", FALSE),
       GenEd("HIS", "1301", 3, <<>>, "History", FALSE),
       GenEd("HIS", "2301", 3, <<>>, "History", FALSE),
       GenEd("HUM", "1310", 3, <<>>, "History", FALSE),
       GenEd("HUM", "2302", 3, <<>>, "History", FALSE),
       GenEd("PSC", "2301", 3, <<Code("ENG", "1301")>>, "History", FALSE),
       GenEd("ECO", "1300", 3, <<>>, "Social", FALSE),
       GenEd("GEO", "1301", 3, <<>>, "Social", FALSE),
       GenEd("PSY", "1301", 3, <<>>, "Social", FALSE),
       GenEd("SOC", "1301", 3, <<>>, "Social", FALSE),
       GenEd("SSC", "1310", 3, <<>>, "Social", FALSE),
       GenEd("SLP", "1101", 3, <<>>, "Civic", TRUE) >>

GE_CATEGORIES ==
    << [code |-> "FYE_FAS", name |-> "First Year & Foundation Courses", credits |-> 6],
       [code |-> "ENGLISH", name |-> "English Requirements", credits |-> 6],
       [code |-> "ARABIC", name |-> "Arabic Language Requirement", credits |-> 2],
       [code |-> "COMMUNICATION", name |-> "Communication", credits |-> 3],
       [code |-> "HUMANITIES", name |-> "Humanities", credits |-> 3],
       [code |-> "FRENCH", name |-> "French Language", credits |-> 2],
       [code |-> "ART", name |-> "Art Appreciation & Creation", credits |-> 3],
       [code |-> "HISTORY", name |-> "History or Political Science", credits |-> 3],
       [code |-> "SOCIAL", name |-> "Social Sciences", credits |-> 3],
       [code |-> "CIVIC", name |-> "Civic Engagement", credits |-> 3] >>

MAX_SEMESTERS == 12

\* the keys of categoryCredits
Categories ==
    {"Foundation", "English", "Arabic", "Communication", "Humanities", "French", "Art",
     "History", "Social", "Civic"}

FirstSemesterCourse(dept, number, credits) ==
    [code |-> Code(dept, number), credits |-> credits, prerequisites |-> <<>>, semester |-> 1]

firstSemesterCourses ==
    << FirstSemesterCourse("ARB", "1241", 2), FirstSemesterCourse("CSC", "1401", 4),
       FirstSemesterCourse("ENG", "1301", 3), FirstSemesterCourse("FAS", "0210", 2),
       FirstSemesterCourse("FYE", "1101", 1), FirstSemesterCourse("MTH", "1303", 3) >>

trackCourses ==
    [ai |-> {<<"CSC", "3309">>, <<"CSC", "3347">>, <<"CSC", "3310">>, <<"CSC", "3311">>},
     bigdata |-> {<<"CSC", "3331">>, <<"CSC", "4352">>, <<"CSC", "3329">>, <<"CSC", "3346">>},
     systems |-> {<<"CSC", "3373">>, <<"CSC", "3328">>, <<"CSC", "3329">>, <<"CSC", "3331">>},
     software |-> {<<"CSC", "4307">>, <<"CSC", "4309">>, <<"CSC", "3357">>, <<"CSC", "3358">>}]

----------------------------------------------------------------------------
(* generateDegreePlan: the function *)

\* code.startsWith(prefix) for a prefix that is a department
startsWith(code, prefix) == code # <<>> /\ Head(code) = prefix

\* trackCourses[track]?.includes(code.replace(/\s/g, '')) || false
isSpecializationCourse(code, track) ==
    /\ track \in DOMAIN trackCourses
    /\ SelectSeq(code, LAMBDA tok : tok # " ") \in trackCourses[track]

\* specializations.some(spec => isSpecializationCourse(c.code, spec))
InSpecializations(c, specializations) ==
    \E i \in 1..Len(specializations) : isSpecializationCourse(c.code, specializations[i])

\* areas[0].courses: Technical Core
TechnicalCore(courses, specializations) ==
    SelectSeq(courses, LAMBDA c :
        \/ \E prefix \in {"MTH", "PHY", "CHE", "EGR", "ACC", "FIN", "MGT"} :
              startsWith(c.code, prefix)
        \/ startsWith(c.code, "CSC") /\ ~InSpecializations(c, specializations))

\* areas[1].courses: General Education
GeneralEducation ==
    [i \in 1..Len(GENERAL_EDUCATION_COURSES) |->
        LET course == GENERAL_EDUCATION_COURSES[i]
        IN  [code |-> course.code, credits |-> course.credits,
             prerequisites |-> course.prerequisites, category |-> course.category,
             required |-> course.required, isPlaceholder |-> ~course.required,
             type |-> IF course.required THEN "course" ELSE "choice"]]

\* areas[2].courses: Specialization
Specialization(courses, specializations) ==
    SelectSeq(courses, LAMBDA c : InSpecializations(c, specializations))

CodesOf(courses) == { courses[i].code : i \in 1..Len(courses) }

\* the Map built by prerequisiteMap.set(course.code, new Set(course.prerequisites))
\* over the courses of the areas in order: a later entry replaces an earlier one
prerequisiteMap(areaCourses) ==
    [code \in CodesOf(areaCourses) |->
        LET k == CHOOSE k \in 1..Len(areaCourses) :
                    /\ areaCourses[k].code = code
                    /\ \A j \in (k + 1)..Len(areaCourses) : areaCourses[j].code # code
        IN  Range(areaCourses[k].prerequisites)]

\* courses.reduce((sum, course) => sum + course.credits, 0)
RECURSIVE ReduceCredits(_)
ReduceCredits(courses) ==
    IF courses = <<>> THEN 0 ELSE Head(courses).credits + ReduceCredits(Tail(courses))

\* arr.slice(0, n)
slice(arr, n) == SubSeq(arr, 1, IF n < Len(arr) THEN n ELSE Len(arr))

\* variant: the set of taken codes outlives the invocation
InitialTakenCourses_Kept == takenCourses

\* const takenCourses = new Set<string>()
InitialTakenCourses == {}

\* variant: the prerequisites are not looked at
arePrerequisitesMet_Always(course, map, taken) == TRUE

arePrerequisitesMet(course, map, taken) ==
    \/ course.code \notin DOMAIN map
    \/ map[course.code] = {}
    \/ \A prereq \in map[course.code] : prereq \in taken

\* variant: no course counts as taken
IsTaken_Never(taken, c) == FALSE

\* takenCourses.has(c.code)
IsTaken(taken, c) == c.code \in taken

\* the stable sort of getAvailableGenEdCourses: Foundation courses first, the
\* order of the list kept otherwise
SortFoundationFirst(courses) ==
    SelectSeq(courses, LAMBDA c : c.category = "Foundation")
        \o SelectSeq(courses, LAMBDA c : c.category # "Foundation")

\* GE_CATEGORIES.find(cat => cat.name === category), 0 when undefined
FindCategory(category) ==
    IF \E i \in 1..Len(GE_CATEGORIES) : GE_CATEGORIES[i].name = category
    THEN CHOOSE i \in 1..Len(GE_CATEGORIES) :
            /\ GE_CATEGORIES[i].name = category
            /\ \A j \in 1..(i - 1) : GE_CATEGORIES[j].name # category
    ELSE 0

\* categoryCredits[c.category] < GE_CATEGORIES.find(...)?.credits, false for undefined
BelowCategoryCredits(c, categoryCredits) ==
    /\ FindCategory(c.category) # 0
    /\ categoryCredits[c.category] < GE_CATEGORIES[FindCategory(c.category)].credits

getAvailableGenEdCourses(maxCourses, generalEducation, map, taken, categoryCredits) ==
    LET requiredCourses ==
            SortFoundationFirst(SelectSeq(generalEducation, LAMBDA c :
                c.required /\ ~IsTaken(taken, c) /\ arePrerequisitesMet(c, map, taken)))
        first == slice(requiredCourses, maxCourses)
        electiveCourses ==
            slice(SelectSeq(generalEducation, LAMBDA c :
                      /\ ~c.required
                      /\ ~IsTaken(taken, c)
                      /\ arePrerequisitesMet(c, map, taken)
                      /\ BelowCategoryCredits(c, categoryCredits)),
                  maxCourses - Len(first))
    IN  IF Len(first) < maxCourses THEN first \o electiveCourses ELSE first

\* semesterCourses.forEach(course => { if (course.category) categoryCredits[...] += ... })
AddCategoryCredits(categoryCredits, courses) ==
    [category \in DOMAIN categoryCredits |->
        categoryCredits[category]
            + ReduceCredits(SelectSeq(courses, LAMBDA c :
                  "category" \in DOMAIN c /\ c.category = category))]

\* the category credits after the first semester: by the prefix of the code
FirstSemesterCategoryCredits ==
    [category \in Categories |->
        ReduceCredits(SelectSeq(firstSemesterCourses, LAMBDA c :
            \/ category = "Foundation" /\ (startsWith(c.code, "FAS") \/ startsWith(c.code, "FYE"))
            \/ category = "English" /\ startsWith(c.code, "ENG")
            \/ category = "Arabic" /\ startsWith(c.code, "ARB")))]

\* areas.forEach(area => area.courses = area.courses.filter(not in the first semester))
WithoutFirstSemester(courses) ==
    SelectSeq(courses, LAMBDA c : c.code \notin CodesOf(firstSemesterCourses))

\* variant: the loop goes on after the required credits are reached
ContinueLoop_IgnoreCredits(env, st) == st.currentSemester <= MAX_SEMESTERS

\* currentSemester <= MAX_SEMESTERS && totalCredits < requirements.totalCredits
ContinueLoop(env, st) ==
    st.currentSemester <= MAX_SEMESTERS /\ st.totalCredits < env.totalCredits

\* variant: the summer budget is not looked at
SummerAllowed_NoBudget(env, st) == env.includeSummer

\* includeSummer && remainingSummerTerms > 0
SummerAllowed(env, st) == env.includeSummer /\ st.remainingSummerTerms > 0

\* the courses chosen for the semester at position st.currentSemester
SemesterCourses(env, st) ==
    LET taken == st.takenCourses
        isSummer == st.currentSemester % 3 = 0
    IN  IF ~isSummer
        THEN slice(SelectSeq(env.technical \o env.specialization, LAMBDA c :
                       ~IsTaken(taken, c) /\ arePrerequisitesMet(c, env.prerequisiteMap, taken)), 3)
             \o getAvailableGenEdCourses(3, env.generalEducation, env.prerequisiteMap, taken,
                                         st.categoryCredits)
        ELSE IF SummerAllowed(env, st)
        THEN getAvailableGenEdCourses(2, env.generalEducation, env.prerequisiteMap, taken,
                                      st.categoryCredits)
             \o slice(SelectSeq(env.technical, LAMBDA c :
                          /\ ~IsTaken(taken, c)
                          /\ arePrerequisitesMet(c, env.prerequisiteMap, taken)
                          /\ c.credits <= 3
                          /\ ~startsWith(c.code, "CSC")), 1)
        ELSE <<>>

\* the while loop: the remaining semesters
RECURSIVE GenerateRemaining(_, _)
GenerateRemaining(env, st) ==
    IF ~ContinueLoop(env, st) THEN st
    ELSE LET isSummer == st.currentSemester % 3 = 0
             semesterCourses == SemesterCourses(env, st)
             semesterCredits == ReduceCredits(semesterCourses)
             placed ==
                 IF Len(semesterCourses) > 0
                 THEN [st EXCEPT
                         !.takenCourses = @ \cup CodesOf(semesterCourses),
                         !.categoryCredits = AddCategoryCredits(@, semesterCourses),
                         !.semesterPlans =
                             Append(@, [semester |-> st.currentSemester,
                                        courses |-> semesterCourses,
                                        credits |-> semesterCredits,
                                        type |-> IF isSummer THEN "summer" ELSE "regular"]),
                         !.totalCredits = @ + semesterCredits]
                 ELSE st
         IN  GenerateRemaining(env,
                [placed EXCEPT
                    !.currentSemester = @ + 1,
                    !.remainingSummerTerms =
                        IF isSummer /\ SummerAllowed(env, st) THEN @ - 1 ELSE @])

\* an invocation up to its return: the locals when the loop ends
GeneratorRun(req, opts) ==
    LET technical == TechnicalCore(req.courses, opts.specializations)
        specialization == Specialization(req.courses, opts.specializations)
        env == [technical |-> WithoutFirstSemester(technical),
                generalEducation |-> WithoutFirstSemester(GeneralEducation),
                specialization |-> WithoutFirstSemester(specialization),
                prerequisiteMap |-> prerequisiteMap(technical \o GeneralEducation \o specialization),
                totalCredits |-> req.totalCredits,
                includeSummer |-> opts.includeSummer]
        firstSemester == [semester |-> 1, courses |-> firstSemesterCourses,
                          credits |-> ReduceCredits(firstSemesterCourses), type |-> "regular"]
    IN  GenerateRemaining(env,
            [currentSemester |-> 2,
             totalCredits |-> ReduceCredits(firstSemesterCourses),
             takenCourses |-> InitialTakenCourses \cup CodesOf(firstSemesterCourses),
             categoryCredits |-> FirstSemesterCategoryCredits,
             semesterPlans |-> <<firstSemester>>,
             remainingSummerTerms |-> opts.summerTerms])

generateDegreePlan(req, opts) == GeneratorRun(req, opts).semesterPlans

----------------------------------------------------------------------------
(* generateDegreePlan invoked on bounded arguments *)

Requirement(dept, number, credits, prerequisites) ==
    [code |-> Code(dept, number), credits |-> credits, prerequisites |-> prerequisites]

\* the course records the catalogs are built from
CoursePool ==
    { Requirement("MTH", "1303", 3, <<>>),
      Requirement("MTH", "1304", 3, <<Code("MTH", "1303")>>),
      Requirement("CSC", "2302", 3, <<Code("CSC", "1401")>>),
      Requirement("CSC", "2306", 3, <<Code("CSC", "1401"), Code("CSC", "2302")>>),
      Requirement("CSC", "3309", 3, <<Code("CSC", "2302")>>),
      Requirement("CSC", "3351", 3, <<Code("CSC", "2302"), Code("CSC", "2306")>>),
      Requirement("PHY", "1402", 3, <<Code("PHY", "1401")>>),
      Requirement("EGR", "4601", 6, <<>>),
      Requirement("ACC", "4601", 6, <<>>),
      Requirement("FIN", "4601", 6, <<>>) }

\* requirements.courses: catalogs of distinct codes
Catalogs ==
    { courses \in SeqsUpTo(CoursePool, MaxCatalog) :
        \A i, j \in 1..Len(courses) : courses[i].code = courses[j].code => i = j }

RequirementsInputs == [totalCredits : {20, 134}, courses : Catalogs]

OptionsInputs ==
    [includeSummer : BOOLEAN, summerTerms : {0, 1}, specializations : {<<>>, <<"ai">>}]

InitGenerator ==
    /\ semesterPlans = <<>>
    /\ error = NoError
    /\ userInfo = NoUserInfo
    /\ last = Call("create", NoSemester, NoCode, "done")
    /\ requirements \in RequirementsInputs
    /\ options \in OptionsInputs
    /\ generated = <<>>
    /\ takenCourses = {}

Generate ==
    /\ Len(generated) < MaxInvocations
    /\ LET run == GeneratorRun(requirements, options)
       IN  /\ generated' = Append(generated, run.semesterPlans)
           /\ takenCourses' = run.takenCourses
    /\ UNCHANGED <<semesterPlans, error, userInfo, last, requirements, options>>

NextGenerator == Generate

SpecGenerator == InitGenerator /\ [][NextGenerator]_vars

----------------------------------------------------------------------------
(* The rules of the validator, stated on the ledger *)

InPlan(plans, semester) == \E i \in 1..Len(plans) : plans[i].semester = semester

\* the position of a semester in the semester sequence
PositionOf(plans, semester) == CHOOSE i \in 1..Len(plans) : plans[i].semester = semester

RECURSIVE SumCredits(_)
SumCredits(courses) ==
    IF courses = <<>> THEN 0 ELSE parseInt(Head(courses).credits) + SumCredits(Tail(courses))

CodesIn(plan) == { plan.courses[k].course_code : k \in 1..Len(plan.courses) }

\* the normalized codes placed in the semesters strictly before `semester`
AvailableCodes(plans, semester) ==
    UNION { { normalizeCourseCode(code) : code \in CodesIn(plans[i]) } :
            i \in 1..(PositionOf(plans, semester) - 1) }

\* evaluate(expr, available): every non-empty OR-group has an alternative in available
Evaluate(expr, available) ==
    \A g \in 1..Len(expr) :
        \/ expr[g] = <<>>
        \/ \E p \in 1..Len(expr[g]) : normalizeCourseCode(expr[g][p].value) \in available

Cap(type) == IF type = "summer" THEN 10 ELSE 22

DuplicateInSemester(plans, semester, course) ==
    course.course_code \in CodesIn(plans[PositionOf(plans, semester)])

DuplicateElsewhere(plans, semester, course) ==
    \E i \in 1..Len(plans) :
        i # PositionOf(plans, semester) /\ course.course_code \in CodesIn(plans[i])

CreditLimitExceeded(plans, semester, course) ==
    LET S == plans[PositionOf(plans, semester)]
    IN  S.credits + parseInt(course.credits) > Cap(S.type)

PrerequisitesUnmet(plans, semester, course) ==
    ~Evaluate(course.prerequisites, AvailableCodes(plans, semester))

\* the kind of error of the earliest violated rule, "null" when no rule is violated
EarliestViolation(plans, semester, course) ==
    IF DuplicateInSemester(plans, semester, course) THEN "is already in"
    ELSE IF DuplicateElsewhere(plans, semester, course) THEN "is already in another semester"
    ELSE IF CreditLimitExceeded(plans, semester, course) THEN "would exceed the credit limit"
    ELSE IF PrerequisitesUnmet(plans, semester, course) THEN "prerequisites are not satisfied"
    ELSE "null"

ViolationCount(plans, semester, course) ==
    Cardinality({ k \in 1..4 :
        \/ k = 1 /\ DuplicateInSemester(plans, semester, course)
        \/ k = 2 /\ DuplicateElsewhere(plans, semester, course)
        \/ k = 3 /\ CreditLimitExceeded(plans, semester, course)
        \/ k = 4 /\ PrerequisitesUnmet(plans, semester, course) })

FirstSemester == <<"Fall", 2024>>
LaterSemester == <<"Summer", 2025>>

----------------------------------------------------------------------------
(* C1: after any sequence of resetPlan, addCourse, removeCourse and import, the
   stored credits of every semester equal the sum of the credit values of the
   courses in its list. *)
C1_CreditSum ==
    \A i \in 1..Len(semesterPlans) :
        semesterPlans[i].credits = SumCredits(semesterPlans[i].courses)

\* a course has been removed from a semester that still holds two courses
C1_Witness ==
    /\ last.op = "removeCourse" /\ last.outcome = "accepted"
    /\ Len(semesterPlans[PositionOf(semesterPlans, last.semester)].courses) >= 2

(* C2: no course code is present in two different semesters of semesterPlans,
   and none appears twice inside one semester. *)
C2_Uniqueness ==
    \A i, j \in 1..Len(semesterPlans) :
        \A k \in 1..Len(semesterPlans[i].courses), l \in 1..Len(semesterPlans[j].courses) :
            semesterPlans[i].courses[k].course_code = semesterPlans[j].courses[l].course_code
                => (i = j /\ k = l)

\* a plan import has replayed a course that is already in another semester
C2_Witness ==
    /\ last.op = "import"
    /\ error.kind = "is already in another semester"
    /\ PlacedCount(semesterPlans) >= 1

(* C3: in every reachable state a regular semester holds at most 22 credits and
   a summer semester at most 10. *)
C3_CreditCap ==
    \A i \in 1..Len(semesterPlans) :
        semesterPlans[i].credits <= (IF semesterPlans[i].type = "summer" THEN 10 ELSE 22)

\* a summer semester filled to exactly its cap
C3_Witness ==
    \E i \in 1..Len(semesterPlans) :
        semesterPlans[i].type = "summer" /\ semesterPlans[i].credits = 10

(* C4: the prerequisite check of addCourse(S, c) depends only on the courses
   placed in the semesters strictly before S: a call that passes the duplicate
   and credit rules is accepted exactly when the prerequisite expression holds
   of those courses, and is rejected as "prerequisites are not satisfied"
   otherwise. *)
C4_StrictlyEarlier ==
    [][ LET semester == last'.semester
            course == CourseByCode(last'.code)
        IN  ( /\ AddCalled({"accepted", "rejected"})
              /\ ~DuplicateInSemester(semesterPlans, semester, course)
              /\ ~DuplicateElsewhere(semesterPlans, semester, course)
              /\ ~CreditLimitExceeded(semesterPlans, semester, course) )
            => IF Evaluate(course.prerequisites, AvailableCodes(semesterPlans, semester))
               THEN /\ error' = NoError
                    /\ course.course_code
                          \in CodesIn(semesterPlans'[PositionOf(semesterPlans, semester)])
               ELSE /\ error' = PrerequisitesNotSatisfied(course)
                    /\ semesterPlans' = semesterPlans ]_vars

\* CSC 2302 was refused in the first semester for its prerequisite CSC 1401,
\* which sits in that same semester
C4_Witness ==
    /\ last = Call("addCourse", FirstSemester, CSC2302.course_code, "rejected")
    /\ error = PrerequisitesNotSatisfied(CSC2302)
    /\ PositionOf(semesterPlans, FirstSemester) = 1
    /\ CSC1401.course_code \in CodesIn(semesterPlans[1])

(* C5: addCourse reports the first failing check in the order duplicate in
   semester, duplicate elsewhere, credit limit, prerequisites: whenever a call
   violates rules, the error recorded is that of the earliest violated one and
   the ledger is not changed. *)
C5_FirstFailingCheck ==
    [][ LET semester == last'.semester
            course == CourseByCode(last'.code)
        IN  ( /\ AddCalled({"accepted", "rejected"})
              /\ ViolationCount(semesterPlans, semester, course) >= 1 )
            => /\ error'.kind = EarliestViolation(semesterPlans, semester, course)
               /\ error'.code = course.course_code
               /\ semesterPlans' = semesterPlans ]_vars

\* MTH 2301 was refused for the credit limit of the first semester, where its
\* prerequisites are unmet as well
C5_Witness ==
    /\ last = Call("addCourse", FirstSemester, MTH2301.course_code, "rejected")
    /\ error = ExceedsCreditLimit(MTH2301, FirstSemester)
    /\ ViolationCount(semesterPlans, FirstSemester, MTH2301) = 2

(* C6: for a course that is in no semester and whose prerequisites are
   satisfied, addCourse into S is accepted exactly when S.credits +
   course.credits <= cap(S.type) (22 regular, 10 summer), and is rejected with
   the credit-limit error otherwise. *)
C6_CapBoundary ==
    [][ LET semester == last'.semester
            course == CourseByCode(last'.code)
            S == semesterPlans[PositionOf(semesterPlans, semester)]
        IN  ( /\ AddCalled({"accepted", "rejected"})
              /\ ~DuplicateInSemester(semesterPlans, semester, course)
              /\ ~DuplicateElsewhere(semesterPlans, semester, course)
              /\ ~PrerequisitesUnmet(semesterPlans, semester, course) )
            => IF S.credits + parseInt(course.credits) <= Cap(S.type)
               THEN /\ error' = NoError
                    /\ semesterPlans'[PositionOf(semesterPlans, semester)].credits
                          = S.credits + parseInt(course.credits)
               ELSE /\ error' = ExceedsCreditLimit(course, semester)
                    /\ semesterPlans' = semesterPlans ]_vars

\* a course without prerequisites was refused for a total one credit over the
\* cap of a regular semester
C6_Witness ==
    /\ last = Call("addCourse", FirstSemester, MTH1303.course_code, "rejected")
    /\ error = ExceedsCreditLimit(MTH1303, FirstSemester)
    /\ semesterPlans[PositionOf(semesterPlans, FirstSemester)].credits
          + parseInt(MTH1303.credits) = 23
    /\ \A i \in 1..Len(semesterPlans) : MTH1303.course_code \notin CodesIn(semesterPlans[i])

\* the courses placed in the semesters strictly after position i
LaterCourses(plans, i) ==
    UNION { Range(plans[j].courses) : j \in (i + 1)..Len(plans) }

\* the course of semester position i that has the code
PlacedCourse(plans, i, code) ==
    CHOOSE c \in Range(plans[i].courses) : c.course_code = code

\* B's only prerequisite is the course with this code
OnlyPrerequisite(B, code) ==
    /\ Len(B.prerequisites) = 1
    /\ Len(B.prerequisites[1]) = 1
    /\ normalizeCourseCode(B.prerequisites[1][1].value) = normalizeCourseCode(code)

(* C7: with A (no prerequisite) in semester 1 and B (whose only prerequisite is
   A) in a later semester, removeCourse(semester 1, A) is rejected with an
   error that names B and the ledger is unchanged; when no later course has A
   as a prerequisite, the removal succeeds and the credits of semester 1 are
   decremented by A's credits. *)
C7_RemovalBlocked ==
    [][ LET code == last'.code
            i == PositionOf(semesterPlans, last'.semester)
            A == PlacedCourse(semesterPlans, i, code)
            dependents == { B \in LaterCourses(semesterPlans, i) : OnlyPrerequisite(B, code) }
            listing == { B \in LaterCourses(semesterPlans, i) :
                            \E g \in 1..Len(B.prerequisites) :
                                \E p \in 1..Len(B.prerequisites[g]) :
                                    normalizeCourseCode(B.prerequisites[g][p].value)
                                        = normalizeCourseCode(code) }
        IN  ( RemoveCalled({"accepted", "rejected"}) /\ i = 1 /\ A.prerequisites = <<>> )
            => /\ dependents # {}
                    => /\ error'.kind = "cannot remove"
                       /\ error'.dependent \in { B.course_code : B \in dependents }
                       /\ semesterPlans' = semesterPlans
               /\ listing = {}
                    => /\ error' = NoError
                       /\ semesterPlans'[i].credits = semesterPlans[i].credits - parseInt(A.credits)
      ]_vars

\* the normalized codes placed strictly before position j, `code` taken out
AvailableWithout(plans, j, code) ==
    UNION { { normalizeCourseCode(c) : c \in CodesIn(plans[k]) } : k \in 1..(j - 1) }
        \ {normalizeCourseCode(code)}

\* some course placed after position i has its prerequisite expression become
\* false once `code` is taken out of the ledger
BecomesUnsatisfied(plans, i, code) ==
    \E j \in (i + 1)..Len(plans) : \E B \in Range(plans[j].courses) :
        /\ Evaluate(B.prerequisites, AvailableCodes(plans, plans[j].semester))
        /\ ~Evaluate(B.prerequisites, AvailableWithout(plans, j, code))

(* C8: removeCourse(S, c) is blocked only when some course placed in a semester
   strictly after S would have its prerequisite expression become false once c
   is taken out; otherwise the removal succeeds and S's credits are
   decremented. *)
C8_BlockedOnlyWhenNeeded ==
    [][ LET code == last'.code
            i == PositionOf(semesterPlans, last'.semester)
            A == PlacedCourse(semesterPlans, i, code)
        IN  ( RemoveCalled({"accepted", "rejected"})
              /\ ~BecomesUnsatisfied(semesterPlans, i, code) )
            => /\ error' = NoError
               /\ code \notin CodesIn(semesterPlans'[i])
               /\ semesterPlans'[i].credits = semesterPlans[i].credits - parseInt(A.credits)
      ]_vars

Reasons ==
    { "is already in", "is already in another semester", "would exceed the credit limit",
      "prerequisites are not satisfied", "cannot remove" }

(* C9: every rejected addCourse or removeCourse leaves semesterPlans as it was
   and records its reason as the error of the store; every accepted addCourse
   or removeCourse changes the ledger and resets the error to null. *)
C9_ErrorsAreValues ==
    [][ ( AddCalled({"accepted", "rejected"}) \/ RemoveCalled({"accepted", "rejected"}) )
        => IF last'.outcome = "rejected"
           THEN /\ semesterPlans' = semesterPlans
                /\ error'.kind \in Reasons
                /\ error'.code = last'.code
           ELSE /\ semesterPlans' # semesterPlans
                /\ error' = NoError ]_vars

\* a removal was refused and its reason is the error of the store
C9_Witness ==
    /\ last.op = "removeCourse" /\ last.outcome = "rejected"
    /\ error.kind = "cannot remove"
    /\ error.code \in CodesIn(semesterPlans[PositionOf(semesterPlans, last.semester)])

(* C10: an addCourse or removeCourse that names a semester which is not in the
   plan is never silently ignored: it leaves a trace in the store. *)
C10_UnknownSemesterFailsLoudly ==
    [][ last'.outcome = "no semester"
        => (semesterPlans' # semesterPlans \/ error' # error) ]_vars

----------------------------------------------------------------------------
(* Prerequisite expressions with empty groups, code normalization in the
   removal check, the CSC 2302 case *)

OnlyEmptyGroups(expr) == \A g \in 1..Len(expr) : expr[g] = <<>>

\* some non-empty OR-group of the expression has no alternative in available
SomeGroupUnmet(expr, available) ==
    \E g \in 1..Len(expr) :
        /\ expr[g] # <<>>
        /\ \A p \in 1..Len(expr[g]) : normalizeCourseCode(expr[g][p].value) \notin available

OtherRuleViolated(plans, semester, course) ==
    \/ DuplicateInSemester(plans, semester, course)
    \/ DuplicateElsewhere(plans, semester, course)
    \/ CreditLimitExceeded(plans, semester, course)

(* C11: the prerequisite check of addCourse passes, in every plan state, a
   course whose expression is [] or holds only empty OR-groups; an empty
   OR-group in a longer expression satisfies only its own conjunct: a course is
   accepted only when each non-empty OR-group has an alternative placed in a
   strictly earlier semester, and is refused for its prerequisites when one has
   none. *)
C11_EmptyGroups ==
    [][ LET semester == last'.semester
            course == EmptyGroupCourseByCode(last'.code)
            expr == course.prerequisites
            available == AvailableCodes(semesterPlans, semester)
            accepted ==
                /\ last'.outcome = "accepted"
                /\ error' = NoError
                /\ course.course_code
                      \in CodesIn(semesterPlans'[PositionOf(semesterPlans, semester)])
        IN  AddCalled({"accepted", "rejected"})
            => /\ OnlyEmptyGroups(expr) => error'.kind # "prerequisites are not satisfied"
               /\ (OnlyEmptyGroups(expr) /\ ~OtherRuleViolated(semesterPlans, semester, course))
                     => accepted
               /\ last'.outcome = "accepted" => ~SomeGroupUnmet(expr, available)
               /\ (SomeGroupUnmet(expr, available)
                      /\ ~OtherRuleViolated(semesterPlans, semester, course))
                     => /\ error' = PrerequisitesNotSatisfied(course)
                        /\ semesterPlans' = semesterPlans ]_vars

\* PHY 1401 ([[], [MTH 1303]]) was refused for its prerequisites in a plan that
\* holds FAS 1220 ([[]]), accepted before
C11_Witness ==
    /\ last = Call("addCourse", LaterSemester, PHY1401.course_code, "rejected")
    /\ error = PrerequisitesNotSatisfied(PHY1401)
    /\ \E i \in 1..Len(semesterPlans) : FAS1220 \in Range(semesterPlans[i].courses)

\* the courses placed after position i that list the code as a prerequisite,
\* codes compared after normalization
ListingNormalized(plans, i, code) ==
    { B \in LaterCourses(plans, i) :
        \E g \in 1..Len(B.prerequisites) : \E p \in 1..Len(B.prerequisites[g]) :
            normalizeCourseCode(B.prerequisites[g][p].value) = normalizeCourseCode(code) }

(* C12: the removal check compares codes after normalization: removeCourse
   refuses to remove a placed course when a course of a later semester lists
   it as a prerequisite under a code that differs only in spacing, hyphens or
   letter case. *)
C12_RemovalNormalizes ==
    [][ LET code == last'.code
            i == PositionOf(semesterPlans, last'.semester)
        IN  ( RemoveCalled({"accepted", "rejected"})
              /\ ListingNormalized(semesterPlans, i, code) # {} )
            => /\ last'.outcome = "rejected"
               /\ error'.kind = "cannot remove"
               /\ error'.dependent
                     \in { B.course_code : B \in ListingNormalized(semesterPlans, i, code) }
               /\ semesterPlans' = semesterPlans ]_vars

(* C13: addCourse accepts CSC 2302 into a semester only if CSC 1401 is placed
   in a strictly earlier semester, also when the prerequisite list of CSC 2302
   is empty or holds only empty groups. *)
C13_CSC2302RequiresCSC1401 ==
    [][ ( AddCalled({"accepted"}) /\ last'.code = <<"CSC", " ", "2302">> )
        => normalizeCourseCode(<<"CSC", " ", "1401">>)
              \in AvailableCodes(semesterPlans, last'.semester) ]_vars

----------------------------------------------------------------------------
(* The semester sequence of resetPlan *)

RecognizedTerm(term) == term \in {"Fall", "Spring", "Summer"}

\* the term that follows a term in the cycle Fall, Spring, Summer, Fall
FollowingTerm(term) ==
    CASE term = "Fall" -> "Spring"
      [] term = "Spring" -> "Summer"
      [] term = "Summer" -> "Fall"

\* the year in the name of the semester that follows a semester named term year:
\* Spring is named with the year after its Fall's, Summer and the next Fall
\* with the year of the Spring before them
FollowingYear(term, year) == IF term = "Fall" THEN year + 1 ELSE year

(* C14: resetPlan with a user info whose terms are among Fall, Spring, Summer
   produces a sequence inclusive of both ends: its first semester is named
   `startSemester startYear` and its last one `endSemester endYear`. *)
C14_InclusiveOfBothEnds ==
    [][ ( /\ last'.op = "resetPlan"
          /\ userInfo # NoUserInfo
          /\ RecognizedTerm(userInfo.startSemester)
          /\ RecognizedTerm(userInfo.endSemester) )
        => /\ Len(semesterPlans') >= 1
           /\ semesterPlans'[1].semester = <<userInfo.startSemester, userInfo.startYear>>
           /\ semesterPlans'[Len(semesterPlans')].semester
                 = <<userInfo.endSemester, userInfo.endYear>> ]_vars

(* C15: when the start term of the user info is not one of Fall, Spring,
   Summer, resetPlan reports an error and does not fall back to a default
   semester sequence. *)
C15_InvalidStartReported ==
    [][ ( /\ last'.op = "resetPlan"
          /\ userInfo # NoUserInfo
          /\ ~RecognizedTerm(userInfo.startSemester) )
        => /\ error' # NoError
           /\ semesterPlans' # InvalidStartPlans ]_vars

(* C16: in every sequence produced by resetPlan consecutive semesters follow
   the cycle Fall, Spring, Summer, Fall; a Fall is named with its year y and
   the Spring and Summer after it with y+1; a semester is of type summer
   exactly when its term is Summer; the names are pairwise distinct; every
   semester has no courses and 0 credits. *)
C16_SequenceShape ==
    [][ last'.op = "resetPlan"
        => LET plans == semesterPlans'
           IN  /\ \A i \in 1..(Len(plans) - 1) :
                     /\ plans[i + 1].semester[1] = FollowingTerm(plans[i].semester[1])
                     /\ plans[i + 1].semester[2]
                           = FollowingYear(plans[i].semester[1], plans[i].semester[2])
               /\ \A i \in 1..Len(plans) :
                     /\ RecognizedTerm(plans[i].semester[1])
                     /\ plans[i].type = "summer" <=> plans[i].semester[1] = "Summer"
                     /\ plans[i].type \in {"summer", "regular"}
                     /\ plans[i].courses = <<>>
                     /\ plans[i].credits = 0
               /\ \A i, j \in 1..Len(plans) :
                     plans[i].semester = plans[j].semester => i = j ]_vars

\* resetPlan has produced, for a user info, a sequence that starts with a Spring
\* and runs into the next academic year
C16_Witness ==
    /\ last.op = "resetPlan"
    /\ userInfo # NoUserInfo
    /\ Len(semesterPlans) >= 5
    /\ semesterPlans[1].semester[1] = "Spring"

----------------------------------------------------------------------------
(* The plans returned by generateDegreePlan *)

\* the codes placed in the semesters of a plan before position k
PlacedBefore(plan, k) == UNION { CodesOf(plan[j].courses) : j \in 1..(k - 1) }

\* the codes placed in the semesters of a plan after the first
PlacedAfterFirst(plan) == UNION { CodesOf(plan[j].courses) : j \in 2..Len(plan) }

(* C17: generateDegreePlan is deterministic: invocations on identical
   requirements and options return identical plans, the same semesters in the
   same order with the same courses in the same order and the same credits. *)
C17_Deterministic ==
    \A m, n \in 1..Len(generated) : generated[m] = generated[n]

\* two invocations have returned a plan with a summer semester
C17_Witness ==
    /\ Len(generated) >= 2
    /\ \E k \in 1..Len(generated[2]) : generated[2][k].type = "summer"

(* C18: in every returned plan each course of a semester after the first has
   all its prerequisites in strictly earlier semesters of the plan, the courses
   of its own semester not counted; a course with a prerequisite that is never
   placed is never scheduled. *)
C18_PrerequisitesEarlier ==
    \A n \in 1..Len(generated) :
        LET plan == generated[n]
        IN  /\ \A k \in 2..Len(plan) : \A c \in Range(plan[k].courses) :
                  \A prereq \in Range(c.prerequisites) : prereq \in PlacedBefore(plan, k)
            /\ \A c \in Range(requirements.courses) \cup Range(GENERAL_EDUCATION_COURSES) :
                  (\E prereq \in Range(c.prerequisites) : prereq \notin PlacedBefore(plan, Len(plan) + 1))
                      => c.code \notin PlacedAfterFirst(plan)

\* CSC 2306 was placed after its prerequisite CSC 2302, listed behind it in the
\* catalog, and PHY 1402, whose prerequisite is in no catalog, was left out
C18_Witness ==
    /\ Len(generated) >= 1
    /\ Code("PHY", "1402") \in CodesOf(requirements.courses)
    /\ Code("PHY", "1402") \notin PlacedAfterFirst(generated[1])
    /\ \E i, j \in 1..Len(requirements.courses) :
          /\ i < j
          /\ requirements.courses[i].code = Code("CSC", "2306")
          /\ requirements.courses[j].code = Code("CSC", "2302")
    /\ Code("CSC", "2306") \in PlacedAfterFirst(generated[1])

(* C19: no course code appears more than once in a returned plan, neither
   twice in one semester nor in two semesters, the courses of the fixed first
   semester included, for catalogs of distinct codes and every choice of
   specializations. *)
C19_NoDuplicateCodes ==
    \A n \in 1..Len(generated) :
        LET plan == generated[n]
        IN  \A k, l \in 1..Len(plan) :
                \A i \in 1..Len(plan[k].courses), j \in 1..Len(plan[l].courses) :
                    plan[k].courses[i].code = plan[l].courses[j].code => (k = l /\ i = j)

\* a plan of several semesters for a catalog that lists MTH 1303, a course of
\* the fixed first semester, and a specialization course
C19_Witness ==
    /\ Len(generated) >= 1
    /\ Len(generated[1]) >= 3
    /\ Code("MTH", "1303") \in CodesOf(requirements.courses)
    /\ options.specializations = <<"ai">>
    /\ Code("CSC", "3309") \in PlacedAfterFirst(generated[1])

(* C20: every semester of a returned plan keeps the credit caps of manual
   placement: a regular semester totals at most 22 credits and a summer
   semester at most 10. *)
C20_GeneratedCreditCaps ==
    \A n \in 1..Len(generated) : \A k \in 1..Len(generated[n]) :
        ReduceCredits(generated[n][k].courses)
            <= (IF generated[n][k].type = "summer" THEN 10 ELSE 22)

\* the credits placed in the first k semesters of a plan
RECURSIVE CumulativeCredits(_, _)
CumulativeCredits(plan, k) ==
    IF k = 0 THEN 0 ELSE ReduceCredits(plan[k].courses) + CumulativeCredits(plan, k - 1)

Positions(plan) == { plan[k].semester : k \in 1..Len(plan) }

\* the semesters of a plan at positions below p
BeforePosition(plan, p) == SelectSeq(plan, LAMBDA sem : sem.semester < p)

\* the codes placed at positions below p
PlacedBeforePosition(plan, p) ==
    UNION { CodesOf(sem.courses) : sem \in Range(BeforePosition(plan, p)) }

SummerSemesters(plan) == { k \in 1..Len(plan) : plan[k].type = "summer" }

(* C21: generateDegreePlan returns for every input and stops at either bound:
   no semester is added once the credits placed so far have reached
   requirements.totalCredits, no semester has a position above 12, and the
   positions of the at most 12 semesters increase strictly. *)
C21_StopsAtBounds ==
    \A n \in 1..Len(generated) :
        LET plan == generated[n]
        IN  /\ Len(plan) <= 12
            /\ \A k \in 1..Len(plan) : plan[k].semester \in 1..12
            /\ \A k \in 1..(Len(plan) - 1) : plan[k].semester < plan[k + 1].semester
            /\ \A k \in 2..Len(plan) :
                  CumulativeCredits(plan, k - 1) < requirements.totalCredits

\* a plan that stopped after its second semester, which reached the required 20
\* credits, and a catalog course still unplaced
C21_Witness ==
    /\ Len(generated) >= 1
    /\ requirements.totalCredits = 20
    /\ Len(generated[1]) = 2
    /\ CumulativeCredits(generated[1], 2) >= 20
    /\ Code("CSC", "2306") \in CodesOf(requirements.courses)
    /\ Code("CSC", "2302") \in PlacedAfterFirst(generated[1])

\* the courses that can be chosen for a regular semester at position p: required
\* general-education and catalog courses, not placed, with placed prerequisites
RegularCandidates(plan, p) ==
    { c \in Range(requirements.courses)
            \cup { g \in Range(GENERAL_EDUCATION_COURSES) : g.required } :
        /\ c.code \notin PlacedBeforePosition(plan, p)
        /\ \A prereq \in Range(c.prerequisites) : prereq \in PlacedBeforePosition(plan, p) }

(* C22: a semester of a returned plan is a summer semester exactly when its
   position mod 3 is 0; summer semesters occur only when includeSummer is
   true and there are at most options.summerTerms of them; a regular position
   reached by the loop is left out only when no course can be chosen for it,
   whatever the summer budget. *)
C22_SummerPositions ==
    \A n \in 1..Len(generated) :
        LET plan == generated[n]
        IN  /\ \A k \in 1..Len(plan) :
                  plan[k].type = "summer" <=> plan[k].semester % 3 = 0
            /\ SummerSemesters(plan) # {} => options.includeSummer
            /\ Cardinality(SummerSemesters(plan)) <= options.summerTerms
            /\ \A p \in 2..MAX_SEMESTERS :
                  ( /\ p % 3 # 0
                    /\ p \notin Positions(plan)
                    /\ CumulativeCredits(plan, Len(BeforePosition(plan, p)))
                          < requirements.totalCredits )
                  => RegularCandidates(plan, p) = {}

\* a plan with its one allowed summer semester at position 3 and regular
\* semesters at 4 and 5, general-education courses still open at position 6
C22_Witness ==
    /\ Len(generated) >= 1
    /\ options.includeSummer /\ options.summerTerms = 1
    /\ Cardinality(SummerSemesters(generated[1])) = 1
    /\ {3, 4, 5} \subseteq Positions(generated[1])
    /\ 6 \notin Positions(generated[1])

\* the category of the general-education course with the code, "none" otherwise
CategoryOfCode(code) ==
    IF \E g \in Range(GENERAL_EDUCATION_COURSES) : g.code = code
    THEN (CHOOSE g \in Range(GENERAL_EDUCATION_COURSES) : g.code = code).category
    ELSE "none"

\* the minimum credits of the categories: the credits of their GE_CATEGORIES entry
CategoryMinimum ==
    [Foundation |-> GE_CATEGORIES[1].credits, English |-> GE_CATEGORIES[2].credits,
     Arabic |-> GE_CATEGORIES[3].credits, Communication |-> GE_CATEGORIES[4].credits,
     Humanities |-> GE_CATEGORIES[5].credits, French |-> GE_CATEGORIES[6].credits,
     Art |-> GE_CATEGORIES[7].credits, History |-> GE_CATEGORIES[8].credits,
     Social |-> GE_CATEGORIES[9].credits, Civic |-> GE_CATEGORIES[10].credits]

\* the credits of a category among courses
CategoryCreditsIn(courses, category) ==
    ReduceCredits(SelectSeq(courses, LAMBDA c : CategoryOfCode(c.code) = category))

\* the credits of a category placed before semester k of a plan
RECURSIVE CategoryCreditsBefore(_, _, _)
CategoryCreditsBefore(plan, k, category) ==
    IF k <= 1 THEN 0
    ELSE CategoryCreditsIn(plan[k - 1].courses, category)
            + CategoryCreditsBefore(plan, k - 1, category)

IsElective(c) == "required" \in DOMAIN c /\ ~c.required

(* C23: a general-education elective is selected only if its category has not
   reached its minimum credits: when it is chosen, the credits placed in its
   category, those of the courses chosen before it for the same semester
   included, are below the minimum of the category. *)
C23_ElectiveBelowMinimum ==
    \A n \in 1..Len(generated) :
        LET plan == generated[n]
        IN  \A k \in 2..Len(plan) : \A i \in 1..Len(plan[k].courses) :
                LET c == plan[k].courses[i]
                IN  IsElective(c)
                    => CategoryCreditsBefore(plan, k, c.category)
                          + CategoryCreditsIn(SubSeq(plan[k].courses, 1, i - 1), c.category)
                       < CategoryMinimum[c.category]

\* the electives that can be chosen for semester k of a plan: not placed, with
\* placed prerequisites, of a listed category below its minimum
OpenElectives(plan, k) ==
    { g \in Range(GENERAL_EDUCATION_COURSES) :
        /\ ~g.required
        /\ g.category \in {"Arabic", "Humanities", "Art", "History", "Social", "English"}
        /\ g.code \notin PlacedBefore(plan, k)
        /\ \A prereq \in Range(g.prerequisites) : prereq \in PlacedBefore(plan, k)
        /\ CategoryCreditsBefore(plan, k, g.category) < CategoryMinimum[g.category] }

\* the required general-education courses that can be chosen for semester k
OpenRequired(plan, k) ==
    { g \in Range(GENERAL_EDUCATION_COURSES) :
        /\ g.required
        /\ g.code \notin PlacedBefore(plan, k)
        /\ \A prereq \in Range(g.prerequisites) : prereq \in PlacedBefore(plan, k) }

GenEdSlots(sem) == IF sem.type = "summer" THEN 2 ELSE 3

(* C24: whenever a semester is filled for which fewer eligible required
   general-education courses exist than general-education slots, and some
   elective, not taken and with satisfied prerequisites, belongs to a category
   among Arabic, Humanities, Art, History, Social, English whose placed credits
   are below its minimum, such an elective is placed in that semester. *)
C24_OpenElectivePlaced ==
    \A n \in 1..Len(generated) :
        LET plan == generated[n]
        IN  \A k \in 2..Len(plan) :
                ( /\ Cardinality(OpenRequired(plan, k)) < GenEdSlots(plan[k])
                  /\ OpenElectives(plan, k) # {} )
                => \E g \in OpenElectives(plan, k) : g.code \in CodesOf(plan[k].courses)

----------------------------------------------------------------------------
(* The course picker of a semester (AddCourseButton) *)

\* plan.courses.map(course => course.course_code) over plans, flattened
RECURSIVE FlatCourseCodes(_)
FlatCourseCodes(plans) ==
    IF plans = <<>> THEN <<>>
    ELSE [i \in 1..Len(Head(plans).courses) |-> Head(plans).courses[i].course_code]
            \o FlatCourseCodes(Tail(plans))

\* the codes of the semesters up to and including the one named `semester`,
\* the codes of all semesters when it is not found
addedCourses(plans, semester) ==
    LET currentSemesterIndex == FindSemester(plans, semester)
    IN  IF currentSemesterIndex = 0 THEN FlatCourseCodes(plans)
        ELSE FlatCourseCodes(SubSeq(plans, 1, currentSemesterIndex))

\* the codes of the semester named `semester`, none when it is not found
currentSemesterCourses(plans, semester) ==
    LET currentSemesterIndex == FindSemester(plans, semester)
    IN  IF currentSemesterIndex = 0 THEN <<>>
        ELSE FlatCourseCodes(<<plans[currentSemesterIndex]>>)

\* normalizeCourseCode(code1) === normalizeCourseCode(code2), with the picker's
\* own normalizeCourseCode: code.replace(/[\s-]+/g, '').toUpperCase()
courseCodesMatch(code1, code2) ==
    MapUpper(SelectSeq(code1, LAMBDA tok : ~IsSeparator(tok)))
        = MapUpper(SelectSeq(code2, LAMBDA tok : ~IsSeparator(tok)))

\* addedCourses.some(code => courseCodesMatch(code, prereqValue))
InAdded(added, prereqValue) ==
    \E i \in 1..Len(added) : courseCodesMatch(added[i], prereqValue)

\* the picker's check of a course against the codes in `added`
arePrerequisitesSatisfied(course, added) ==
    IF Len(course.prerequisites) = 0 THEN TRUE
    ELSE IF \E g \in 1..Len(course.prerequisites) : Len(course.prerequisites[g]) = 0
    THEN TRUE
    ELSE IF course.course_code = <<"CSC", " ", "2302">> /\ InAdded(added, <<"CSC", "1401">>)
    THEN TRUE
    ELSE \A g \in 1..Len(course.prerequisites) :
            LET orGroup == course.prerequisites[g]
            IN  \/ Len(orGroup) = 0
                \/ \E p \in 1..Len(orGroup) : InAdded(added, orGroup[p].value)

\* the courses of the catalog the picker of a semester lists, for an empty
\* search term
filteredCourses(catalog, plans, semester, showAllCourses) ==
    { course \in catalog :
        /\ \A i \in 1..Len(currentSemesterCourses(plans, semester)) :
              currentSemesterCourses(plans, semester)[i] # course.course_code
        /\ \/ showAllCourses
           \/ Len(course.prerequisites) = 0
           \/ \E g \in 1..Len(course.prerequisites) : Len(course.prerequisites[g]) = 0
           \/ arePrerequisitesSatisfied(course, addedCourses(plans, semester)) }

(* C25: with 'Show all courses' off, every course the picker lists for a
   semester of the plan passes the prerequisite check of addCourse for that
   semester in the same plan. *)
C25_PickerAgreesWithStore ==
    \A i \in 1..Len(semesterPlans) :
        \A course \in filteredCourses(courseData, semesterPlans,
                                      semesterPlans[i].semester, FALSE) :
            PassesPrerequisites(semesterPlans, semesterPlans[i].semester, course)

----------------------------------------------------------------------------
(* Plan export (savePlan) and the import of the exported file *)

\* the while loop of getAllSemesters: the names `${currentSemester} ${displayYear}`
RECURSIVE AllSemestersFrom(_, _, _, _)
AllSemestersFrom(currentYear, currentSemester, endYear, endSemester) ==
    IF \/ currentYear < endYear
       \/ /\ currentYear = endYear
          /\ IndexOf(semesterOrder, currentSemester) <= IndexOf(semesterOrder, endSemester)
    THEN LET displayYear == IF currentSemester = "Fall" THEN currentYear ELSE currentYear + 1
             nextSemesterIndex == (IndexOf(semesterOrder, currentSemester) + 1) % Len(semesterOrder)
         IN  << <<currentSemester, displayYear>> >>
             \o AllSemestersFrom(IF nextSemesterIndex = 0 THEN currentYear + 1 ELSE currentYear,
                                 semesterOrder[nextSemesterIndex + 1], endYear, endSemester)
    ELSE <<>>

getAllSemesters(info) ==
    IF info = NoUserInfo THEN <<>>
    ELSE AllSemestersFrom(info.startYear, info.startSemester, info.endYear, info.endSemester)

\* the first year of the academic year of a semester name (Fall starts the year)
AcademicYear(name) == IF name[1] = "Fall" THEN name[2] ELSE name[2] - 1

termOrder(term) ==
    CASE term = "Fall" -> 0
      [] term = "Spring" -> 1
      [] term = "Summer" -> 2

\* a section comes before another one: earlier academic year, or the same year
\* and not a later term
SectionBefore(a, b) ==
    \/ AcademicYear(a.name) < AcademicYear(b.name)
    \/ /\ AcademicYear(a.name) = AcademicYear(b.name)
       /\ termOrder(a.name[1]) <= termOrder(b.name[1])

RECURSIVE InsertSection(_, _)
InsertSection(x, sorted) ==
    IF sorted = <<>> THEN <<x>>
    ELSE IF SectionBefore(Head(sorted), x) THEN <<Head(sorted)>> \o InsertSection(x, Tail(sorted))
    ELSE <<x>> \o sorted

\* the sections by sorted academic year and, within a year, by term (stable)
RECURSIVE SortSections(_)
SortSections(sections) ==
    IF sections = <<>> THEN <<>>
    ELSE InsertSection(sections[Len(sections)],
                       SortSections(SubSeq(sections, 1, Len(sections) - 1)))

\* the line of a course in the file: its padded code, its name and its credits
CourseLine(course) == [course_code |-> course.course_code, credits |-> course.credits]

\* the semester sections of the file savePlan writes: one for every name of
\* getAllSemesters, with the courses of the first plan of that name
savePlan(info, plans) ==
    LET allPossibleSemesters == getAllSemesters(info)
    IN  SortSections(
            [i \in 1..Len(allPossibleSemesters) |->
                LET existingSemester == FindSemester(plans, allPossibleSemesters[i])
                IN  [name |-> allPossibleSemesters[i],
                     lines |-> IF existingSemester = 0 THEN <<>>
                               ELSE [k \in 1..Len(plans[existingSemester].courses) |->
                                        CourseLine(plans[existingSemester].courses[k])]]])

\* Number.prototype.toString on the credits of the catalog
toString(n) ==
    CASE n = 0 -> "0"
      [] n = 1 -> "1"
      [] n = 3 -> "3"
      [] n = 4 -> "4"
      [] n = 19 -> "19"

\* the sections of a file with the repeated names skipped (processedSemesters)
RECURSIVE DistinctSections(_, _)
DistinctSections(sections, processedSemesters) ==
    IF sections = <<>> THEN <<>>
    ELSE IF Head(sections).name \in processedSemesters
    THEN DistinctSections(Tail(sections), processedSemesters)
    ELSE <<Head(sections)>>
            \o DistinctSections(Tail(sections), processedSemesters \cup {Head(sections).name})

\* the semesters parseDegreePlanFile reads from the sections of a file
parseDegreePlanFile(sections) ==
    LET distinct == DistinctSections(sections, {})
    IN  [i \in 1..Len(distinct) |->
            [name |-> distinct[i].name,
             courses |-> [k \in 1..Len(distinct[i].lines) |->
                            ImportedCourse(distinct[i].lines[k].course_code,
                                           toString(parseInt(distinct[i].lines[k].credits)))]]]

\* the user infos of the user-info page: recognized terms, the end year not
\* before the start year
RoundTripUserInfos ==
    [startSemester : {"Fall", "Spring", "Summer"}, startYear : {2024},
     endSemester : {"Fall", "Spring", "Summer"}, endYear : 2024..(2024 + MaxYears - 1)]

RoundTripSemesters == { <<"Fall", 2024>>, <<"Spring", 2025>>, <<"Summer", 2025>> }

\* Save Plan, then the saved file chosen in the import dialog
SaveAndImport ==
    /\ userInfo # NoUserInfo
    /\ userInfo.endYear < 2024 + MaxYears
    /\ ImportPlan(parseDegreePlanFile(savePlan(userInfo, semesterPlans)))

NextRoundTrip ==
    \/ \E info \in RoundTripUserInfos : SetUserInfo(info)
    \/ ResetPlan
    \/ \E semester \in RoundTripSemesters, course \in {CSC1401, CSC2302} :
          AddCourse(semester, course)
    \/ SaveAndImport

SpecRoundTrip == Init /\ [][NextRoundTrip]_vars

\* the names of the semesters of a plan, in order
SemesterNames(plans) == [i \in 1..Len(plans) |-> plans[i].semester]

(* C26: importing the file that savePlan wrote from a plan built from the
   current user info yields a plan in which every semester of the exported
   plan is present with the same course codes and the same credit total. *)
C26_ExportImportRoundTrip ==
    [][ ( /\ last'.op = "import"
          /\ SemesterNames(semesterPlans) = SemesterNames(ResetPlans(userInfo)) )
        => \A i \in 1..Len(semesterPlans) :
              \E j \in 1..Len(semesterPlans') :
                  /\ semesterPlans'[j].semester = semesterPlans[i].semester
                  /\ FlatCourseCodes(<<semesterPlans'[j]>>) = FlatCourseCodes(<<semesterPlans[i]>>)
                  /\ semesterPlans'[j].credits = semesterPlans[i].credits ]_vars

----------------------------------------------------------------------------
(* C27 - C29: effects of addCourse and removeCourse on the ledger *)

\* the semesters other than the k-th keep their courses and credits, and the
\* number, names, types and order of the semesters are kept
OthersUnchanged(k) ==
    /\ Len(semesterPlans') = Len(semesterPlans)
    /\ \A i \in 1..Len(semesterPlans) :
          /\ semesterPlans'[i].semester = semesterPlans[i].semester
          /\ semesterPlans'[i].type = semesterPlans[i].type
          /\ i # k => semesterPlans'[i] = semesterPlans[i]

(* C27: an accepted addCourse(S, c) appends c at the end of the courses of S
   and adds its credits to S.credits; an accepted removeCourse(S, c) removes c
   from S and subtracts its credits; both leave the other semesters and the
   number, names, types and order of the semesters unchanged; removeCourse of
   a course that is not in S changes nothing. *)
C27_FrameEffect ==
    [][ /\ AddCalled({"accepted"}) =>
              LET k == FindSemester(semesterPlans, last'.semester)
                  c == CourseByCode(last'.code)
              IN  /\ OthersUnchanged(k)
                  /\ semesterPlans'[k].courses = Append(semesterPlans[k].courses, c)
                  /\ semesterPlans'[k].credits = semesterPlans[k].credits + parseInt(c.credits)
        /\ RemoveCalled({"accepted"}) =>
              LET k == FindSemester(semesterPlans, last'.semester)
                  c == semesterPlans[k].courses[FindCourse(semesterPlans[k].courses, last'.code)]
              IN  /\ OthersUnchanged(k)
                  /\ semesterPlans'[k].courses
                        = SelectSeq(semesterPlans[k].courses,
                                    LAMBDA x : x.course_code # last'.code)
                  /\ Len(semesterPlans'[k].courses) = Len(semesterPlans[k].courses) - 1
                  /\ semesterPlans'[k].credits = semesterPlans[k].credits - parseInt(c.credits)
        /\ RemoveCalled({"no course"}) =>
              /\ semesterPlans' = semesterPlans
              /\ error' = error ]_vars

\* a course was appended to a semester that held one already, another semester
\* holding a course too
C27_Witness ==
    /\ last.op = "addCourse" /\ last.outcome = "accepted"
    /\ \E k \in 1..Len(semesterPlans) :
          /\ semesterPlans[k].semester = last.semester
          /\ Len(semesterPlans[k].courses) >= 2
          /\ semesterPlans[k].courses[Len(semesterPlans[k].courses)].course_code = last.code
          /\ \E i \in 1..Len(semesterPlans) : i # k /\ Len(semesterPlans[i].courses) >= 1

\* the store driven by the pages only: no plan file is imported
NextManual ==
    \/ \E info \in UserInfoInputs : SetUserInfo(info)
    \/ ResetPlan
    \/ \E semester \in SemesterInputs, course \in courseData : AddCourse(semester, course)
    \/ \E semester \in SemesterInputs, courseCode \in CourseCodes : RemoveCourse(semester, courseCode)

SpecManual == Init /\ [][NextManual]_vars

(* C28: in every state reached from an empty plan by addCourse and removeCourse
   calls with catalog courses, every placed course has its catalog
   prerequisite expression satisfied by the courses placed in strictly
   earlier semesters. *)
C28_PlanWidePrerequisites ==
    \A i \in 1..Len(semesterPlans) :
        \A c \in Range(semesterPlans[i].courses) :
            Evaluate(CourseByCode(c.course_code).prerequisites,
                     AvailableCodes(semesterPlans, semesterPlans[i].semester))

(* C29: when addCourse(S, c) is accepted in a plan P, removeCourse(S, c)
   performed on the resulting store is accepted and gives back exactly P. *)
C29_AddThenRemoveIsIdentity ==
    [][ AddCalled({"accepted"})
        => LET r == removeCourse(semesterPlans', error', last'.semester, last'.code)
           IN  /\ r.outcome = "accepted"
               /\ r.semesterPlans = semesterPlans ]_vars

----------------------------------------------------------------------------
(* The user-info form and the initialisation of the degree-plan page *)

\* the academic information that can be selected on the form
FormUserInfos ==
    [startSemester : {"Fall", "Spring", "Summer"}, startYear : 2024..(2024 + MaxYears - 1),
     endSemester : {"Fall", "Spring", "Summer"}, endYear : 2024..(2024 + MaxYears)]

\* step 2 of handleNextStep: the form is refused when the graduation year is
\* before the start year, otherwise the user info is stored
handleNextStep(info) ==
    /\ ~(info.endYear < info.startYear)
    /\ SetUserInfo(info)

\* the effect of the degree-plan page on semesterPlans: resetPlan when the plan
\* is empty
InitialisePlan ==
    /\ Len(semesterPlans) = 0
    /\ ResetPlan

NextInitialise ==
    \/ \E info \in FormUserInfos : handleNextStep(info)
    \/ InitialisePlan

\* the effect runs after every render in which semesterPlans has changed, so it
\* is not postponed for ever while the plan is empty
SpecInitialise == Init /\ [][NextInitialise]_vars /\ WF_vars(InitialisePlan)

(* C30: once a user info accepted by the form is stored, the initialisation
   rule of the degree-plan page (resetPlan whenever semesterPlans is empty)
   leads to a plan with at least one semester. *)
C30_InitialisationReachesPlan ==
    (userInfo # NoUserInfo /\ Len(semesterPlans) = 0) ~> (Len(semesterPlans) > 0)

====
